---- MODULE Spec2Model ----
(***************************************************************************)
(* A model of the graphics lab program src/main.py: the algorithm library  *)
(* (class Algorithms), the transformation functions, the pixel sink        *)
(* (class PixelCanvas) and the document handlers of class GraphicsEngine.  *)
(*                                                                         *)
(* Numbers.  Python ints are unbounded and are modelled by TLA+ integers.  *)
(* Python floats are modelled by exact values:                             *)
(*  - in cohen_sutherland_clip and bezier_curve, intermediate results are  *)
(*    exact rationals <<n, d>> (d > 0) and int() is truncation toward      *)
(*    zero.  A float sum can fall just below an integer the exact sum      *)
(*    reaches (a Bezier curve whose four control points coincide is one    *)
(*    case), and a float intersection can miss by an ulp a rectangle       *)
(*    corner the exact one lies on, so that a segment that only touches    *)
(*    the corner is rejected by the program and accepted here.  The        *)
(*    curves and segments of the documents below are ones on which the     *)
(*    floats and the exact values agree.                                   *)
(*  - rotate_shape and scale_shape leave floats in "points".  The factor   *)
(*    entered is a whole number and the angle entered is 0, for which      *)
(*    cos and sin are exactly 1.0 and 0.0, so every coordinate is a float  *)
(*    with an integer value and is modelled by that integer.  Any other    *)
(*    angle leaves coordinates a few ulps off the integers, which int()    *)
(*    in render_shape then truncates; those are outside the model.         *)
(*                                                                         *)
(* The surface is Width x Height pixels (800 x 600 in the program).        *)
(***************************************************************************)
EXTENDS Integers, Sequences, FiniteSets, TLC

VARIABLES
    shapes,         \* global shapes: the document, a sequence of shape records
    current_mode,   \* global current_mode
    current_color,  \* global current_color
    temp_points,    \* global temp_points
    clip_window,    \* global clip_window: None or <<xmin, ymin, xmax, ymax>>
    dragging,       \* GraphicsEngine.dragging
    drag_start,     \* GraphicsEngine.drag_start
    image,          \* PixelCanvas.image: pixel -> color
    call,           \* the operation under test: its name, its arguments and
                    \* the document it was applied to
    ret             \* its outcome, NoRet while the operation is pending

appvars == <<shapes, current_mode, current_color, temp_points, clip_window,
             dragging, drag_start, image>>
vars == <<shapes, current_mode, current_color, temp_points, clip_window,
          dragging, drag_start, image, call, ret>>

\* ------------------------------------------------------------------------
\* Bounds of the model
\* ------------------------------------------------------------------------
MaxCoord == 3       \* library inputs range over -MaxCoord .. MaxCoord

MaxRadius == 9      \* circle radii range over 0 .. MaxRadius
MaxWin == 2         \* clip rectangles have their corners in 0 .. MaxWin
Width == 6          \* the surface is Width x Height pixels
Height == 5

Coord == (-MaxCoord) .. MaxCoord

\* endpoints of clipped segments: up to two units around the rectangles
ClipCoord == (-2) .. (MaxWin + 2)

\* the normalized clip rectangles <<xmin, ymin, xmax, ymax>>
ClipRects ==
    {<<a, b, c, d>> : a \in 0 .. MaxWin, b \in 0 .. MaxWin,
                      c \in 0 .. MaxWin, d \in 0 .. MaxWin} \ 
    {r \in (0 .. MaxWin) \X (0 .. MaxWin) \X (0 .. MaxWin) \X (0 .. MaxWin) :
        r[1] > r[3] \/ r[2] > r[4]}

\* ------------------------------------------------------------------------
\* Arithmetic helpers
\* ------------------------------------------------------------------------
\* Python None, for the optional tuples and dialog answers (an answer v is <<v>>)
None == <<>>

Abs(n) == IF n < 0 THEN -n ELSE n

Max2(a, b) == IF a >= b THEN a ELSE b

Min2(a, b) == IF a <= b THEN a ELSE b

RECURSIVE Gcd(_, _)
Gcd(a, b) == IF b = 0 THEN a ELSE Gcd(b, a % b)

\* the rational n/d in lowest terms with a positive denominator (d # 0)
Rat(n, d) ==
    LET g == Gcd(Abs(n), Abs(d))
        s == IF d < 0 THEN -1 ELSE 1
    IN  <<(s * n) \div g, (s * d) \div g>>

RInt(n) == <<n, 1>>

RAdd(a, b) == Rat(a[1] * b[2] + b[1] * a[2], a[2] * b[2])

RSub(a, b) == Rat(a[1] * b[2] - b[1] * a[2], a[2] * b[2])

RMul(a, b) == Rat(a[1] * b[1], a[2] * b[2])

\* a / b for b # 0
RDiv(a, b) == Rat(a[1] * b[2], a[2] * b[1])

RLt(a, b) == a[1] * b[2] < b[1] * a[2]

RIsZero(a) == a[1] = 0

\* Python int(x) of a float: truncation toward zero
Trunc(a) == IF a[1] >= 0 THEN a[1] \div a[2] ELSE -((-a[1]) \div a[2])

SeqToSet(s) == {s[i] : i \in 1 .. Len(s)}

\* ------------------------------------------------------------------------
\* Algorithms.bresenham_line
\* ------------------------------------------------------------------------
bresenham_sign(a0, a1) == IF a0 < a1 THEN 1 ELSE -1

\* a slip of the pen in the y update: the x step direction is used
bresenham_step_sx_for_sy(x, y, err, dx, dy, sx, sy) ==
    LET e2 == 2 * err
        tx == e2 > -dy
        err1 == IF tx THEN err - dy ELSE err
        xn == IF tx THEN x + sx ELSE x
        ty == e2 < dx
    IN  [x |-> xn,
         y |-> IF ty THEN y + sx ELSE y,
         err |-> IF ty THEN err1 + dx ELSE err1]

\* one pass of the loop body after the termination test (lines 47-53)
bresenham_step(x, y, err, dx, dy, sx, sy) ==
    LET e2 == 2 * err
        tx == e2 > -dy
        err1 == IF tx THEN err - dy ELSE err
        xn == IF tx THEN x + sx ELSE x
        ty == e2 < dx
    IN  [x |-> xn,
         y |-> IF ty THEN y + sy ELSE y,
         err |-> IF ty THEN err1 + dx ELSE err1]

\* The "while True" loop.  fuel is the number of passes the model follows;
\* a walk that has not reached (x1, y1) by then is reported with halts FALSE.
RECURSIVE bresenham_walk(_, _, _, _, _, _, _, _, _, _, _)
bresenham_walk(x, y, err, x1, y1, dx, dy, sx, sy, points, fuel) ==
    LET pts == Append(points, <<x, y>>)
    IN  IF x = x1 /\ y = y1 THEN [halts |-> TRUE, points |-> pts]
        ELSE IF fuel = 0 THEN [halts |-> FALSE, points |-> pts]
        ELSE LET s == bresenham_step(x, y, err, dx, dy, sx, sy)
             IN  bresenham_walk(s.x, s.y, s.err, x1, y1, dx, dy, sx, sy,
                                pts, fuel - 1)

\* passes followed before a walk is given up: twice the Manhattan length
bresenham_fuel(dx, dy) == 2 * (dx + dy) + 2

bresenham_run(x0, y0, x1, y1) ==
    LET dx == Abs(x1 - x0)
        dy == Abs(y1 - y0)
        sx == bresenham_sign(x0, x1)
        sy == bresenham_sign(y0, y1)
    IN  bresenham_walk(x0, y0, dx - dy, x1, y1, dx, dy, sx, sy, <<>>,
                       bresenham_fuel(dx, dy))

bresenham_line(x0, y0, x1, y1) == bresenham_run(x0, y0, x1, y1).points

\* ------------------------------------------------------------------------
\* Algorithms.midpoint_circle
\* ------------------------------------------------------------------------
\* the list of 8 reflections with its second-octant terms written with a
\* plain copy of the first four (x and y not exchanged)
add_symmetric_no_swap(xc, yc, x, y) ==
    << <<xc + x, yc + y>>, <<xc - x, yc + y>>,
       <<xc + x, yc - y>>, <<xc - x, yc - y>>,
       <<xc + x, yc + x>>, <<xc - y, yc + x>>,
       <<xc + y, yc - x>>, <<xc - y, yc - x>> >>

add_symmetric(xc, yc, x, y) ==
    << <<xc + x, yc + y>>, <<xc - x, yc + y>>,
       <<xc + x, yc - y>>, <<xc - x, yc - y>>,
       <<xc + y, yc + x>>, <<xc - y, yc + x>>,
       <<xc + y, yc - x>>, <<xc - y, yc - x>> >>

\* lines 77-82: the update of d, y and x in one pass
circle_step(x, y, d) ==
    IF d < 0 THEN [x |-> x + 1, y |-> y, d |-> d + 2 * x + 3]
    ELSE [x |-> x + 1, y |-> y - 1, d |-> d + 2 * (x - y) + 5]

\* the loop "while x <= y"; it ends because x grows and y never does
RECURSIVE circle_loop(_, _, _, _, _, _)
circle_loop(cx, cy, x, y, d, points) ==
    IF x <= y
    THEN LET s == circle_step(x, y, d)
         IN  circle_loop(cx, cy, s.x, s.y, s.d,
                         points \o add_symmetric(cx, cy, x, y))
    ELSE points

midpoint_circle(cx, cy, radius) ==
    circle_loop(cx, cy, 0, radius, 1 - radius, <<>>)

\* ------------------------------------------------------------------------
\* Algorithms.cohen_sutherland_clip
\* ------------------------------------------------------------------------
INSIDE == 0
LEFT == 1
RIGHT == 2
BOTTOM == 4
TOP == 8

\* code & bit # 0 for a single-bit mask
HasBit(code, bit) == (code \div bit) % 2 = 1

\* the AND that leaves the TOP bit out
BitAnd_without_TOP(a, b) ==
    (IF HasBit(a, LEFT) /\ HasBit(b, LEFT) THEN LEFT ELSE 0)
    + (IF HasBit(a, RIGHT) /\ HasBit(b, RIGHT) THEN RIGHT ELSE 0)
    + (IF HasBit(a, BOTTOM) /\ HasBit(b, BOTTOM) THEN BOTTOM ELSE 0)

\* the bitwise AND of two 4-bit outcodes
BitAnd(a, b) ==
    (IF HasBit(a, LEFT) /\ HasBit(b, LEFT) THEN LEFT ELSE 0)
    + (IF HasBit(a, RIGHT) /\ HasBit(b, RIGHT) THEN RIGHT ELSE 0)
    + (IF HasBit(a, BOTTOM) /\ HasBit(b, BOTTOM) THEN BOTTOM ELSE 0)
    + (IF HasBit(a, TOP) /\ HasBit(b, TOP) THEN TOP ELSE 0)

\* the region test with x compared against ymax in its second branch
compute_code_x_against_ymax(x, y, clip_rect) ==
    LET xmin == RInt(clip_rect[1])
        ymin == RInt(clip_rect[2])
        ymax == RInt(clip_rect[4])
    IN  (IF RLt(x, xmin) THEN LEFT ELSE IF RLt(ymax, x) THEN RIGHT ELSE INSIDE)
        + (IF RLt(y, ymin) THEN BOTTOM ELSE IF RLt(ymax, y) THEN TOP ELSE INSIDE)

\* x and y are rationals; clip_rect is <<xmin, ymin, xmax, ymax>>
compute_code(x, y, clip_rect) ==
    LET xmin == RInt(clip_rect[1])
        ymin == RInt(clip_rect[2])
        xmax == RInt(clip_rect[3])
        ymax == RInt(clip_rect[4])
    IN  (IF RLt(x, xmin) THEN LEFT ELSE IF RLt(xmax, x) THEN RIGHT ELSE INSIDE)
        + (IF RLt(y, ymin) THEN BOTTOM ELSE IF RLt(ymax, y) THEN TOP ELSE INSIDE)

\* a + (b - a) * (lim - c) / (d - c): the intersection formula of lines
\* 231-240, with zd TRUE when the divisor d - c is zero
clip_interp(a, b, c, d, lim) ==
    LET den == RSub(d, c)
    IN  IF RIsZero(den) THEN [zd |-> TRUE, v |-> a]
        ELSE [zd |-> FALSE,
              v |-> RAdd(a, RDiv(RMul(RSub(b, a), RSub(RInt(lim), c)), den))]

\* the intersection that moves the outside endpoint to its own coordinates
\* without fixing the coordinate of the boundary
clip_intersect_unpinned(code_out, x0, y0, x1, y1, clip_rect) ==
    LET xmin == clip_rect[1]
        ymin == clip_rect[2]
        xmax == clip_rect[3]
        ymax == clip_rect[4]
    IN  IF HasBit(code_out, TOP)
        THEN LET r == clip_interp(x0, x1, y0, y1, ymax)
             IN  [zd |-> r.zd, x |-> r.v, y |-> RInt(ymax)]
        ELSE IF HasBit(code_out, BOTTOM)
        THEN LET r == clip_interp(x0, x1, y0, y1, ymin)
             IN  [zd |-> r.zd, x |-> r.v, y |-> RInt(ymin)]
        ELSE IF HasBit(code_out, RIGHT)
        THEN LET r == clip_interp(y0, y1, x0, x1, xmax)
             IN  [zd |-> r.zd, x |-> RInt(xmin), y |-> r.v]
        ELSE LET r == clip_interp(y0, y1, x0, x1, xmin)
             IN  [zd |-> r.zd, x |-> RInt(xmin), y |-> r.v]

\* lines 230-241: the boundary is chosen in the order TOP, BOTTOM, RIGHT,
\* LEFT (code_out is non-zero here, so the last branch is LEFT)
clip_intersect(code_out, x0, y0, x1, y1, clip_rect) ==
    LET xmin == clip_rect[1]
        ymin == clip_rect[2]
        xmax == clip_rect[3]
        ymax == clip_rect[4]
    IN  IF HasBit(code_out, TOP)
        THEN LET r == clip_interp(x0, x1, y0, y1, ymax)
             IN  [zd |-> r.zd, x |-> r.v, y |-> RInt(ymax)]
        ELSE IF HasBit(code_out, BOTTOM)
        THEN LET r == clip_interp(x0, x1, y0, y1, ymin)
             IN  [zd |-> r.zd, x |-> r.v, y |-> RInt(ymin)]
        ELSE IF HasBit(code_out, RIGHT)
        THEN LET r == clip_interp(y0, y1, x0, x1, xmax)
             IN  [zd |-> r.zd, x |-> RInt(xmax), y |-> r.v]
        ELSE LET r == clip_interp(y0, y1, x0, x1, xmin)
             IN  [zd |-> r.zd, x |-> RInt(xmin), y |-> r.v]

\* passes of the clip loop the model follows before it reports "diverges"
ClipFuel == 8

\* The "while True" loop of lines 219-249 on rational endpoints.  status is
\* "accept", "reject", "zerodiv" (ZeroDivisionError raised) or "diverges";
\* cuts counts the endpoint replacements made.
RECURSIVE clip_loop(_, _, _, _, _, _, _, _, _)
clip_loop(x0, y0, x1, y1, code0, code1, clip_rect, cuts, fuel) ==
    LET out(st) == [status |-> st, x0 |-> x0, y0 |-> y0, x1 |-> x1, y1 |-> y1,
                    cuts |-> cuts]
    IN  IF code0 = 0 /\ code1 = 0 THEN out("accept")
        ELSE IF BitAnd(code0, code1) # 0 THEN out("reject")
        ELSE IF fuel = 0 THEN out("diverges")
        ELSE LET code_out == IF code0 # 0 THEN code0 ELSE code1
                 p == clip_intersect(code_out, x0, y0, x1, y1, clip_rect)
             IN  IF p.zd THEN out("zerodiv")
                 ELSE IF code_out = code0
                 THEN clip_loop(p.x, p.y, x1, y1,
                                compute_code(p.x, p.y, clip_rect), code1,
                                clip_rect, cuts + 1, fuel - 1)
                 ELSE clip_loop(x0, y0, p.x, p.y, code0,
                                compute_code(p.x, p.y, clip_rect),
                                clip_rect, cuts + 1, fuel - 1)

\* the call on integer endpoints: its status, the number of replacements
\* and, when accepted, the returned tuple (int(x0), int(y0), int(x1), int(y1))
cohen_sutherland_run(x0, y0, x1, y1, clip_rect) ==
    LET r == clip_loop(RInt(x0), RInt(y0), RInt(x1), RInt(y1),
                       compute_code(RInt(x0), RInt(y0), clip_rect),
                       compute_code(RInt(x1), RInt(y1), clip_rect),
                       clip_rect, 0, ClipFuel)
    IN  [status |-> r.status, cuts |-> r.cuts,
         result |-> IF r.status = "accept"
                    THEN <<Trunc(r.x0), Trunc(r.y0), Trunc(r.x1), Trunc(r.y1)>>
                    ELSE None]

\* ------------------------------------------------------------------------
\* Algorithms.bezier_curve
\* ------------------------------------------------------------------------
BezierSteps == 100

\* the sample for t = i/steps: with a = steps - i the Bernstein sum is
\* (a^3 p0 + 3 a^2 i p1 + 3 a i^2 p2 + i^3 p3) / steps^3, then int()
bezier_coord(c0, c1, c2, c3, i, steps) ==
    LET a == steps - i
    IN  Trunc(<<a * a * a * c0 + 3 * a * a * i * c1
                + 3 * a * i * i * c2 + i * i * i * c3,
                steps * steps * steps>>)

bezier_curve(p0, p1, p2, p3, steps) ==
    [k \in 1 .. steps + 1 |->
        <<bezier_coord(p0[1], p1[1], p2[1], p3[1], k - 1, steps),
          bezier_coord(p0[2], p1[2], p2[2], p3[2], k - 1, steps)>>]

\* ------------------------------------------------------------------------
\* Algorithms.dot_matrix_char
\* ------------------------------------------------------------------------
PatternA ==
    << <<0, 0, 1, 1, 1, 1, 0, 0>>,
       <<0, 1, 1, 0, 0, 1, 1, 0>>,
       <<1, 1, 0, 0, 0, 0, 1, 1>>,
       <<1, 1, 1, 1, 1, 1, 1, 1>>,
       <<1, 1, 0, 0, 0, 0, 1, 1>>,
       <<1, 1, 0, 0, 0, 0, 1, 1>>,
       <<1, 1, 0, 0, 0, 0, 1, 1>>,
       <<0, 0, 0, 0, 0, 0, 0, 0>> >>

PatternB ==
    << <<1, 1, 1, 1, 1, 1, 1, 0>>,
       <<1, 1, 0, 0, 0, 0, 1, 1>>,
       <<1, 1, 0, 0, 0, 0, 1, 1>>,
       <<1, 1, 1, 1, 1, 1, 1, 0>>,
       <<1, 1, 0, 0, 0, 0, 1, 1>>,
       <<1, 1, 0, 0, 0, 0, 1, 1>>,
       <<1, 1, 1, 1, 1, 1, 1, 0>>,
       <<0, 0, 0, 0, 0, 0, 0, 0>> >>

PatternC ==
    << <<0, 1, 1, 1, 1, 1, 1, 0>>,
       <<1, 1, 0, 0, 0, 0, 1, 1>>,
       <<1, 1, 0, 0, 0, 0, 0, 0>>,
       <<1, 1, 0, 0, 0, 0, 0, 0>>,
       <<1, 1, 0, 0, 0, 0, 0, 0>>,
       <<1, 1, 0, 0, 0, 0, 1, 1>>,
       <<0, 1, 1, 1, 1, 1, 1, 0>>,
       <<0, 0, 0, 0, 0, 0, 0, 0>> >>

\* str.upper() on the characters the model enters
Upper(char) ==
    IF char = "a" THEN "A" ELSE IF char = "b" THEN "B"
    ELSE IF char = "c" THEN "C" ELSE char

\* patterns.get(char.upper(), patterns['A'])
PatternOf(char) ==
    LET u == Upper(char)
    IN  IF u = "B" THEN PatternB ELSE IF u = "C" THEN PatternC ELSE PatternA

\* the pixels in the order of the four nested loops: row, column, dy, dx
dot_matrix_char(char, x, y, scale) ==
    LET pattern == PatternOf(char)
        n == IF scale > 0 THEN 64 * scale * scale ELSE 0
        row(k) == ((k - 1) \div (scale * scale)) \div 8
        col(k) == ((k - 1) \div (scale * scale)) % 8
        dy(k) == ((k - 1) \div scale) % scale
        dx(k) == (k - 1) % scale
        on == SelectSeq([k \in 1 .. n |-> k],
                        LAMBDA k : pattern[row(k) + 1][col(k) + 1] = 1)
    IN  [j \in 1 .. Len(on) |->
            <<x + col(on[j]) * scale + dx(on[j]),
              y + row(on[j]) * scale + dy(on[j])>>]

\* ------------------------------------------------------------------------
\* Algorithms.scanline_fill
\* ------------------------------------------------------------------------
RECURSIVE SeqMin(_)
SeqMin(s) == IF Len(s) = 1 THEN s[1] ELSE Min2(s[1], SeqMin(Tail(s)))

RECURSIVE SeqMax(_)
SeqMax(s) == IF Len(s) = 1 THEN s[1] ELSE Max2(s[1], SeqMax(Tail(s)))

\* list.sort() on integers
RECURSIVE SortInsert(_, _)
SortInsert(s, v) ==
    IF s = <<>> THEN <<v>>
    ELSE IF v <= s[1] THEN <<v>> \o s
    ELSE <<s[1]>> \o SortInsert(Tail(s), v)

RECURSIVE Sorted(_)
Sorted(s) == IF s = <<>> THEN <<>> ELSE SortInsert(Sorted(Tail(s)), s[1])

\* lines 168-179: the truncated x of every edge that is not horizontal and
\* whose y range holds y, in edge order
scan_intersections(vertices, y) ==
    LET n == Len(vertices)
        v1(i) == vertices[i]
        v2(i) == vertices[(i % n) + 1]
        crosses(i) ==
            /\ v1(i)[2] # v2(i)[2]
            /\ ~(y < Min2(v1(i)[2], v2(i)[2]) \/ y > Max2(v1(i)[2], v2(i)[2]))
        xs(i) ==
            Trunc(RAdd(RInt(v1(i)[1]),
                       Rat((y - v1(i)[2]) * (v2(i)[1] - v1(i)[1]),
                           v2(i)[2] - v1(i)[2])))
        hit == SelectSeq([i \in 1 .. n |-> i], crosses)
    IN  [j \in 1 .. Len(hit) |-> xs(hit[j])]

\* the spans taken between the intersections as they are, not clamped
RECURSIVE scan_spans_unclamped(_, _, _)
scan_spans_unclamped(xs, y, bbox) ==
    IF Len(xs) < 2 THEN <<>>
    ELSE [k \in 1 .. (xs[2] - xs[1] + 1) |-> <<xs[1] + k - 1, y>>]
         \o scan_spans_unclamped(SubSeq(xs, 3, Len(xs)), y, bbox)

\* lines 184-188: the spans between the pairs (0,1), (2,3), ... of the
\* sorted intersections, clamped to bbox
RECURSIVE scan_spans(_, _, _)
scan_spans(xs, y, bbox) ==
    IF Len(xs) < 2 THEN <<>>
    ELSE LET x1 == Max2(xs[1], bbox[1])
             x2 == Min2(xs[2], bbox[3])
         IN  [k \in 1 .. (x2 - x1 + 1) |-> <<x1 + k - 1, y>>]
             \o scan_spans(SubSeq(xs, 3, Len(xs)), y, bbox)

RECURSIVE scan_rows(_, _, _, _)
scan_rows(vertices, bbox, y, max_y) ==
    IF y > max_y THEN <<>>
    ELSE scan_spans(Sorted(scan_intersections(vertices, y)), y, bbox)
         \o scan_rows(vertices, bbox, y + 1, max_y)

scanline_fill(vertices, bbox) ==
    IF Len(vertices) < 3 THEN <<>>
    ELSE LET ys == [i \in 1 .. Len(vertices) |-> vertices[i][2]]
             min_y == Max2(SeqMin(ys), bbox[2])
             max_y == Min2(SeqMax(ys), bbox[4])
         IN  scan_rows(vertices, bbox, min_y, max_y)

\* ------------------------------------------------------------------------
\* Shape records.  A shape is a record (a dict) with the keys "type" and
\* "color" and, optionally, "points", "char", "scale" and "filled".  A point
\* is a sequence of integers; one of length # 2 cannot be unpacked as x, y.
\* ------------------------------------------------------------------------
\* dict.get(key, default)
Get(shape, key, default) ==
    IF key \in DOMAIN shape THEN shape[key] ELSE default

\* "x, y = map(int, p)" succeeds
Unpacks(p) == Len(p) = 2

\* int(math.sqrt(n)) for n >= 0
Isqrt(n) == CHOOSE k \in 0 .. n : k * k <= n /\ (k + 1) * (k + 1) > n

\* the lists ss[lo], ..., ss[hi] one after the other
RECURSIVE extend_range(_, _, _)
extend_range(ss, lo, hi) ==
    IF lo > hi THEN <<>>
    ELSE IF lo = hi THEN ss[lo]
    ELSE extend_range(ss, lo, (lo + hi) \div 2)
           \o extend_range(ss, (lo + hi) \div 2 + 1, hi)

Flatten(ss) == extend_range(ss, 1, Len(ss))

\* ------------------------------------------------------------------------
\* PixelCanvas
\* ------------------------------------------------------------------------
Pixels == (0 .. Width - 1) \X (0 .. Height - 1)

\* PixelCanvas.clear: the whole surface in bg_color
clear == [p \in Pixels |-> "white"]

\* the filter with both upper limits included
in_bounds_inclusive(p) ==
    0 <= p[1] /\ p[1] <= Width /\ 0 <= p[2] /\ p[2] <= Height

\* the filter of lines 328-329
in_bounds(p) == 0 <= p[1] /\ p[1] < Width /\ 0 <= p[2] /\ p[2] < Height

\* PixelCanvas.put_pixels: the surface after the batch.  The loop of lines
\* 336-337 does image.put(color, (x, y)) for each valid pixel in turn; every
\* put writes the same color, so after the loop a position holds color if
\* it occurs among the valid pixels and what it held before if not.  A put
\* at a position off the surface would add that position to the function.
put_pixels(img, pixels, color) ==
    LET valid_pixels == SelectSeq(pixels, in_bounds)
    IN  [p \in DOMAIN img \cup SeqToSet(valid_pixels) |->
            IF \E i \in 1 .. Len(valid_pixels) : valid_pixels[i] = p
            THEN color ELSE img[p]]

\* the guard of the line branch with one point accepted
enough_points_off_by_one(shape_type, points) ==
    \/ shape_type = "line" /\ Len(points) >= 1
    \/ shape_type = "circle" /\ Len(points) >= 2
    \/ shape_type = "bezier" /\ Len(points) >= 4
    \/ shape_type = "char" /\ Len(points) >= 1
    \/ shape_type = "polygon" /\ Len(points) >= 3

\* the guards of the five branches of render_shape
enough_points(shape_type, points) ==
    \/ shape_type = "line" /\ Len(points) >= 2
    \/ shape_type = "circle" /\ Len(points) >= 2
    \/ shape_type = "bezier" /\ Len(points) >= 4
    \/ shape_type = "char" /\ Len(points) >= 1
    \/ shape_type = "polygon" /\ Len(points) >= 3

\* the number of leading points the branch of render_shape indexes
points_needed(shape_type, points) ==
    IF shape_type = "polygon" THEN Len(points)
    ELSE IF shape_type = "bezier" THEN 4
    ELSE IF shape_type = "char" THEN 1
    ELSE 2

\* the consecutive samples of a curve joined by bresenham_line
curve_pixels(curve_points) ==
    Flatten([i \in 1 .. Len(curve_points) - 1 |->
                bresenham_line(curve_points[i][1], curve_points[i][2],
                               curve_points[i + 1][1], curve_points[i + 1][2])])

\* the outline of a ring of points, each joined to the next and the last to
\* the first
outline_pixels(points) ==
    Flatten([i \in 1 .. Len(points) |->
                bresenham_line(points[i][1], points[i][2],
                               points[(i % Len(points)) + 1][1],
                               points[(i % Len(points)) + 1][2])])

DefaultScale == 2

\* lines 341-387: the pixels render_shape computes, or raised when a point
\* the branch indexes is missing (IndexError) or cannot be unpacked into
\* x, y (ValueError)
shape_pixels(shape) ==
    LET shape_type == Get(shape, "type", "none")
        points == Get(shape, "points", <<>>)
        needed == points_needed(shape_type, points)
    IN  IF ~enough_points(shape_type, points)
        THEN [raised |-> FALSE, pixels |-> <<>>]
        ELSE IF Len(points) < needed
                \/ \E i \in 1 .. needed : ~Unpacks(points[i])
        THEN [raised |-> TRUE, pixels |-> <<>>]
        ELSE [raised |-> FALSE,
              pixels |->
                CASE shape_type = "line" ->
                       bresenham_line(points[1][1], points[1][2],
                                      points[2][1], points[2][2])
                  [] shape_type = "circle" ->
                       midpoint_circle(points[1][1], points[1][2],
                           Isqrt((points[2][1] - points[1][1]) * (points[2][1] - points[1][1])
                                 + (points[2][2] - points[1][2]) * (points[2][2] - points[1][2])))
                  [] shape_type = "bezier" ->
                       curve_pixels(bezier_curve(points[1], points[2], points[3],
                                                 points[4], BezierSteps))
                  [] shape_type = "char" ->
                       dot_matrix_char(Get(shape, "char", "A"), points[1][1],
                                       points[1][2], Get(shape, "scale", DefaultScale))
                  [] shape_type = "polygon" ->
                       outline_pixels(points)
                       \o (IF Get(shape, "filled", FALSE)
                           THEN scanline_fill(points, <<0, 0, Width, Height>>)
                           ELSE <<>>)]

\* PixelCanvas.render_shape: raised, or the surface after put_pixels
render_shape(img, shape) ==
    LET r == shape_pixels(shape)
    IN  IF r.raised THEN [raised |-> TRUE, image |-> img]
        ELSE [raised |-> FALSE,
              image |-> put_pixels(img, r.pixels, Get(shape, "color", "#000000"))]

\* ------------------------------------------------------------------------
\* GraphicsEngine.redraw
\* ------------------------------------------------------------------------
\* lines 548-549: the shapes rendered in list order until one raises
RECURSIVE render_all(_, _)
render_all(img, shs) ==
    IF shs = <<>> THEN [raised |-> FALSE, image |-> img]
    ELSE LET r == render_shape(img, shs[1])
         IN  IF r.raised THEN r ELSE render_all(r.image, Tail(shs))

\* lines 537-545: the four sides of the clip window in red
clip_outline(img, cw) ==
    LET rect_points == << <<cw[1], cw[2]>>, <<cw[3], cw[2]>>,
                          <<cw[3], cw[4]>>, <<cw[1], cw[4]>> >>
        side(i) == bresenham_line(rect_points[i][1], rect_points[i][2],
                                  rect_points[(i % 4) + 1][1],
                                  rect_points[(i % 4) + 1][2])
    IN  put_pixels(put_pixels(put_pixels(put_pixels(img, side(1), "#FF0000"),
                                         side(2), "#FF0000"),
                              side(3), "#FF0000"),
                   side(4), "#FF0000")

\* the redraw with the clip window drawn after the shapes
redraw_outline_last(shs, cw) ==
    LET r == render_all(clear, shs)
    IN  IF r.raised \/ cw = None THEN r
        ELSE [raised |-> FALSE, image |-> clip_outline(r.image, cw)]

\* the surface after redraw, and whether a shape raised on the way
redraw(shs, cw) ==
    render_all(IF cw # None THEN clip_outline(clear, cw) ELSE clear, shs)

\* ------------------------------------------------------------------------
\* Transformation functions.  Coordinates stay integers in the model: the
\* angle entered is 0 and the factors are whole numbers.
\* ------------------------------------------------------------------------
\* "for x, y in shape['points']" succeeds
AllUnpack(points) == \A i \in 1 .. Len(points) : Unpacks(points[i])

\* math.cos / math.sin of math.radians(angle_deg), exact at 0 degrees (the
\* other quarter turns are given by their mathematical values)
CosDeg(angle_deg) ==
    CASE angle_deg % 360 = 0 -> 1
      [] angle_deg % 360 = 180 -> -1
      [] OTHER -> 0

SinDeg(angle_deg) ==
    CASE angle_deg % 360 = 90 -> 1
      [] angle_deg % 360 = 270 -> -1
      [] OTHER -> 0

\* Each function gives the shape with its new points, or raised
\* (ValueError from "for x, y in ...") with the shape as it was.
\* the translation with the new list built back to front
translate_shape_reversed(shape, dx, dy) ==
    IF "points" \notin DOMAIN shape THEN [raised |-> FALSE, shape |-> shape]
    ELSE IF ~AllUnpack(shape.points) THEN [raised |-> TRUE, shape |-> shape]
    ELSE [raised |-> FALSE,
          shape |-> [shape EXCEPT !.points =
                        [i \in 1 .. Len(shape.points) |->
                            <<shape.points[Len(shape.points) + 1 - i][1] + dx,
                              shape.points[Len(shape.points) + 1 - i][2] + dy>>]]]

translate_shape(shape, dx, dy) ==
    IF "points" \notin DOMAIN shape THEN [raised |-> FALSE, shape |-> shape]
    ELSE IF ~AllUnpack(shape.points) THEN [raised |-> TRUE, shape |-> shape]
    ELSE [raised |-> FALSE,
          shape |-> [shape EXCEPT !.points =
                        [i \in 1 .. Len(shape.points) |->
                            <<shape.points[i][1] + dx, shape.points[i][2] + dy>>]]]

rotate_shape(shape, angle_deg, cx, cy) ==
    LET cos_a == CosDeg(angle_deg)
        sin_a == SinDeg(angle_deg)
    IN  IF "points" \notin DOMAIN shape THEN [raised |-> FALSE, shape |-> shape]
        ELSE IF ~AllUnpack(shape.points) THEN [raised |-> TRUE, shape |-> shape]
        ELSE [raised |-> FALSE,
              shape |-> [shape EXCEPT !.points =
                            [i \in 1 .. Len(shape.points) |->
                                LET x == shape.points[i][1] - cx
                                    y == shape.points[i][2] - cy
                                IN  <<x * cos_a - y * sin_a + cx,
                                      x * sin_a + y * cos_a + cy>>]]]

scale_shape(shape, factor, cx, cy) ==
    IF "points" \notin DOMAIN shape THEN [raised |-> FALSE, shape |-> shape]
    ELSE IF ~AllUnpack(shape.points) THEN [raised |-> TRUE, shape |-> shape]
    ELSE [raised |-> FALSE,
          shape |-> [shape EXCEPT !.points =
                        [i \in 1 .. Len(shape.points) |->
                            <<(shape.points[i][1] - cx) * factor + cx,
                              (shape.points[i][2] - cy) * factor + cy>>]]]

\* "for shape in shapes: transform(shape, ...)", given what the transform
\* makes of each shape: the shapes are changed in place, in order, up to
\* the one on which it raises
for_each_shape(shs, transformed) ==
    LET bad == {i \in 1 .. Len(shs) : transformed[i].raised}
        stop == IF bad = {} THEN Len(shs) + 1
                ELSE CHOOSE i \in bad : \A j \in bad : i <= j
    IN  [raised |-> bad # {},
         shapes |-> [i \in 1 .. Len(shs) |->
                        IF i < stop THEN transformed[i].shape ELSE shs[i]]]

\* ------------------------------------------------------------------------
\* GraphicsEngine: the document handlers.  Each operator gives the globals
\* and the surface after the handler, and shown: the message box it showed
\* ("info", "warning", "error"), "none", or "exception" when it ended in an
\* exception nobody caught (Tk reports it and the event loop goes on).
\* ------------------------------------------------------------------------
Outcome(shs, img, shown) == [shapes |-> shs, image |-> img, shown |-> shown]

\* the tail shared by the handlers that end in self.redraw()
then_redraw(shs, cw, shown) ==
    LET r == redraw(shs, cw)
    IN  Outcome(shs, r.image, IF r.raised THEN "exception" ELSE shown)

\* ---- load_project (lines 641-654) ----
\* file.kind: "cancel" (no file chosen), "unreadable" (open raises),
\* "malformed" (json.load raises) or "json" with its parsed content
load_project(shs, cw, img, file) ==
    CASE file.kind = "cancel" -> Outcome(shs, img, "none")
      [] file.kind \in {"unreadable", "malformed"} -> Outcome(shs, img, "error")
      [] file.kind = "json" ->
           LET r == redraw(file.content, cw)
           IN  Outcome(file.content, r.image,
                       IF r.raised THEN "error" ELSE "info")

\* ---- clear_all (lines 656-663); the clip window and temp_points are
\* reset by the action ----
clear_all(shs, img, yes) ==
    IF yes THEN then_redraw(<<>>, None, "none") ELSE Outcome(shs, img, "none")

\* ---- transform_translate / transform_rotate / transform_scale ----
transform_translate(shs, cw, img, dx, dy) ==
    IF shs = <<>> THEN Outcome(shs, img, "warning")
    ELSE IF dx = None \/ dy = None THEN Outcome(shs, img, "none")
    ELSE LET r == for_each_shape(shs, [i \in 1 .. Len(shs) |->
                                        translate_shape(shs[i], dx[1], dy[1])])
         IN  IF r.raised THEN Outcome(r.shapes, img, "exception")
             ELSE then_redraw(r.shapes, cw, "none")

transform_rotate(shs, cw, img, angle) ==
    IF shs = <<>> THEN Outcome(shs, img, "warning")
    ELSE IF angle = None THEN Outcome(shs, img, "none")
    ELSE LET cx == Width \div 2
             cy == Height \div 2
             r == for_each_shape(shs, [i \in 1 .. Len(shs) |->
                                        rotate_shape(shs[i], angle[1], cx, cy)])
         IN  IF r.raised THEN Outcome(r.shapes, img, "exception")
             ELSE then_redraw(r.shapes, cw, "none")

transform_scale(shs, cw, img, factor) ==
    IF shs = <<>> THEN Outcome(shs, img, "warning")
    ELSE IF factor = None \/ ~(factor[1] > 0) THEN Outcome(shs, img, "none")
    ELSE LET cx == Width \div 2
             cy == Height \div 2
             r == for_each_shape(shs, [i \in 1 .. Len(shs) |->
                                        scale_shape(shs[i], factor[1], cx, cy)])
         IN  IF r.raised THEN Outcome(r.shapes, img, "exception")
             ELSE then_redraw(r.shapes, cw, "none")

\* ---- fill_polygon (lines 710-719) ----
fill_polygon(shs, cw, img) ==
    LET polys == {i \in 1 .. Len(shs) : shs[i].type = "polygon"}
    IN  IF polys = {} THEN Outcome(shs, img, "warning")
        ELSE LET k == CHOOSE i \in polys : \A j \in polys : j <= i
                 flipped == [filled |-> ~Get(shs[k], "filled", FALSE)]
                            @@ shs[k]
             IN  then_redraw([shs EXCEPT ![k] = flipped], cw, "none")

\* ---- apply_clipping (lines 721-746) ----
\* lines 735-740: what a line contributes to new_shapes, given the run of
\* the clipper on its endpoints; raised is ZeroDivisionError out of it
clipped_line(shape, r) ==
    IF r.status \in {"zerodiv", "diverges"} THEN [raised |-> TRUE, out |-> <<>>]
    ELSE IF r.status # "accept" THEN [raised |-> FALSE, out |-> <<>>]
    ELSE IF "color" \notin DOMAIN shape THEN [raised |-> TRUE, out |-> <<>>]
    ELSE [raised |-> FALSE,
          out |-> << [type |-> "line",
                      points |-> << <<r.result[1], r.result[2]>>,
                                    <<r.result[3], r.result[4]>> >>,
                      color |-> shape.color] >>]

\* one pass of the loop over shapes: what is appended to new_shapes, or
\* raised: KeyError for a line without "points" (or a clipped one without
\* "color"), ValueError for an endpoint that cannot be unpacked
clip_one(shape, cw) ==
    IF shape.type # "line" THEN [raised |-> FALSE, out |-> <<shape>>]
    ELSE IF "points" \notin DOMAIN shape THEN [raised |-> TRUE, out |-> <<>>]
    ELSE IF Len(shape.points) < 2 THEN [raised |-> FALSE, out |-> <<shape>>]
    ELSE IF ~Unpacks(shape.points[1]) \/ ~Unpacks(shape.points[2])
    THEN [raised |-> TRUE, out |-> <<>>]
    ELSE clipped_line(shape,
             cohen_sutherland_run(shape.points[1][1], shape.points[1][2],
                                  shape.points[2][1], shape.points[2][2], cw))

apply_clipping(shs, cw, img) ==
    IF cw = None THEN Outcome(shs, img, "warning")
    ELSE IF \E i \in 1 .. Len(shs) : clip_one(shs[i], cw).raised
    THEN Outcome(shs, img, "exception")
    ELSE then_redraw(Flatten([i \in 1 .. Len(shs) |-> clip_one(shs[i], cw).out]),
                     cw, "info")

\* ------------------------------------------------------------------------
\* State after construction (module globals, GraphicsEngine.__init__)
\* ------------------------------------------------------------------------
NoCall == [fn |-> "none"]

NoRet == [tag |-> "pending"]

InitApp ==
    /\ shapes = <<>>
    /\ current_mode = "line"
    /\ current_color = "#000000"
    /\ temp_points = <<>>
    /\ clip_window = None
    /\ dragging = FALSE
    /\ drag_start = None
    /\ image = clear

\* ------------------------------------------------------------------------
\* Library calls: bresenham_line on every pair of endpoints of the range
\* ------------------------------------------------------------------------
InitLine ==
    /\ InitApp
    /\ call \in {[fn |-> "bresenham_line", x0 |-> a, y0 |-> b, x1 |-> c, y1 |-> d] :
                 a \in Coord, b \in Coord, c \in Coord, d \in Coord}
    /\ ret = NoRet

CallBresenhamLine ==
    /\ call.fn = "bresenham_line"
    /\ ret = NoRet
    /\ ret' = [tag |-> "line"] @@ bresenham_run(call.x0, call.y0, call.x1, call.y1)
    /\ UNCHANGED <<appvars, call>>

NextLine == CallBresenhamLine

SpecLine == InitLine /\ [][NextLine]_vars

\* ------------------------------------------------------------------------
\* Library calls: midpoint_circle on every center and radius of the range
\* ------------------------------------------------------------------------
InitCircle ==
    /\ InitApp
    /\ call \in {[fn |-> "midpoint_circle", cx |-> a, cy |-> b, radius |-> r] :
                 a \in Coord, b \in Coord, r \in 0 .. MaxRadius}
    /\ ret = NoRet

CallMidpointCircle ==
    /\ call.fn = "midpoint_circle"
    /\ ret = NoRet
    /\ ret' = [tag |-> "circle",
               points |-> midpoint_circle(call.cx, call.cy, call.radius)]
    /\ UNCHANGED <<appvars, call>>

NextCircle == CallMidpointCircle

SpecCircle == InitCircle /\ [][NextCircle]_vars

\* ------------------------------------------------------------------------
\* Library calls: cohen_sutherland_clip on every segment and rectangle
\* ------------------------------------------------------------------------
InitClip ==
    /\ InitApp
    /\ call \in {[fn |-> "cohen_sutherland_clip",
                  x0 |-> a, y0 |-> b, x1 |-> c, y1 |-> d, clip_rect |-> r] :
                 a \in ClipCoord, b \in ClipCoord, c \in ClipCoord,
                 d \in ClipCoord, r \in ClipRects}
    /\ ret = NoRet

CallCohenSutherlandClip ==
    /\ call.fn = "cohen_sutherland_clip"
    /\ ret = NoRet
    /\ ret' = [tag |-> "clip"]
              @@ cohen_sutherland_run(call.x0, call.y0, call.x1, call.y1,
                                      call.clip_rect)
    /\ UNCHANGED <<appvars, call>>

NextClip == CallCohenSutherlandClip

SpecClip == InitClip /\ [][NextClip]_vars

\* ------------------------------------------------------------------------
\* Library calls: scanline_fill on every ring of up to MaxRing vertices of
\* the range, against bounds that hold the ring, cut it, and are empty
\* ------------------------------------------------------------------------
MaxFill == 1

MaxRing == 3

FillCoord == (-1) .. MaxFill

Rings == UNION {[1 .. n -> FillCoord \X FillCoord] : n \in 0 .. MaxRing}

\* bounds that hold every ring, bounds that cut it on every side, bounds
\* that cut it on two sides, and bounds with nothing in them
FillBounds ==
    {<<-1, -1, MaxFill, MaxFill>>, <<0, 0, MaxFill - 1, MaxFill - 1>>,
     <<0, -1, MaxFill, 0>>, <<1, 1, 0, 0>>}

InitFill ==
    /\ InitApp
    /\ call \in {[fn |-> "scanline_fill", vertices |-> v, bbox |-> b] :
                 v \in Rings, b \in FillBounds}
    /\ ret = NoRet

CallScanlineFill ==
    /\ call.fn = "scanline_fill"
    /\ ret = NoRet
    /\ ret' = [tag |-> "fill", points |-> scanline_fill(call.vertices, call.bbox)]
    /\ UNCHANGED <<appvars, call>>

NextFill == CallScanlineFill

SpecFill == InitFill /\ [][NextFill]_vars

\* ------------------------------------------------------------------------
\* PixelCanvas.put_pixels on surfaces and batches that reach over every edge
\* ------------------------------------------------------------------------
MaxBatch == 3

\* the corners of the surface and their neighbours outside it
BatchCoords == {-1, 0, Width - 1, Width} \X {-1, 0, Height - 1, Height}

Batches == UNION {[1 .. n -> BatchCoords] : n \in 0 .. MaxBatch}

\* a blank surface, and one on which a line was drawn before
Surfaces ==
    {clear,
     put_pixels(clear, bresenham_line(0, 0, Width - 1, Height - 1), "#000000")}

InitSink ==
    /\ shapes = <<>>
    /\ current_mode = "line"
    /\ current_color = "#000000"
    /\ temp_points = <<>>
    /\ clip_window = None
    /\ dragging = FALSE
    /\ drag_start = None
    /\ image \in Surfaces
    /\ call = NoCall
    /\ ret = NoRet

CallPutPixels ==
    /\ ret = NoRet
    /\ \E pixels \in Batches, color \in {"#000000", "#00FF00"} :
          /\ call' = [fn |-> "put_pixels", pixels |-> pixels, color |-> color,
                      image |-> image]
          /\ image' = put_pixels(image, pixels, color)
    /\ ret' = [tag |-> "put"]
    /\ UNCHANGED <<shapes, current_mode, current_color, temp_points,
                   clip_window, dragging, drag_start>>

NextSink == CallPutPixels

SpecSink == InitSink /\ [][NextSink]_vars

\* ------------------------------------------------------------------------
\* The documents: shape lists as the mouse handlers build them and as
\* load_project reads them from a file, with the clip window set or not
\* ------------------------------------------------------------------------
LineA == [type |-> "line", points |-> << <<0, 1>>, <<5, 3>> >>, color |-> "#000000"]

LineB == [type |-> "line", points |-> << <<0, 4>>, <<2, 4>> >>, color |-> "#0000FF"]

CircleA == [type |-> "circle", points |-> << <<2, 2>>, <<4, 2>> >>, color |-> "#00FF00"]

BezierA ==
    [type |-> "bezier", color |-> "#0000FF",
     points |-> << <<0, 0>>, <<5, 0>>, <<5, 4>>, <<0, 4>> >>]

CharA ==
    [type |-> "char", points |-> << <<0, 0>> >>, color |-> "#000000",
     char |-> "b", scale |-> 1]

PolyA ==
    [type |-> "polygon", points |-> << <<1, 0>>, <<5, 1>>, <<2, 4>> >>,
     color |-> "#00FF00", filled |-> TRUE]

\* shapes with fewer points than render_shape asks of their kind
LineShort == [type |-> "line", points |-> << <<2, 2>> >>, color |-> "#00FF00"]

CircleShort == [type |-> "circle", points |-> << <<3, 1>> >>, color |-> "#000000"]

BezierShort ==
    [type |-> "bezier", color |-> "#000000",
     points |-> << <<0, 0>>, <<3, 0>>, <<3, 3>> >>]

CharShort ==
    [type |-> "char", points |-> <<>>, color |-> "#0000FF", char |-> "C",
     scale |-> 1]

PolyShort ==
    [type |-> "polygon", points |-> << <<0, 0>>, <<4, 4>> >>,
     color |-> "#0000FF", filled |-> TRUE]

\* records only a file can bring in: a line with no "points" key, which
\* renders as nothing, and a line whose second point has one coordinate,
\* which render_shape cannot unpack
LineNoPoints == [type |-> "line", color |-> "#000000"]

LineBadPoint == [type |-> "line", points |-> << <<0, 0>>, <<5>> >>, color |-> "#000000"]

DocShapes ==
    {LineA, LineB, CircleA, BezierA, CharA, PolyA, LineShort, CircleShort,
     BezierShort, CharShort, PolyShort, LineNoPoints, LineBadPoint}

MaxDocLen == 2

\* every list of up to MaxDocLen shapes, and some longer ones
DocLists ==
    UNION {[1 .. n -> DocShapes] : n \in 0 .. MaxDocLen}
    \cup {<<CircleA, LineShort, LineA>>, <<LineNoPoints, CharA, BezierA>>,
          <<PolyA, LineA, CircleA>>, <<LineA, LineNoPoints, LineB>>,
          <<BezierShort, PolyA, LineB, CharShort>>}

\* no window, one that cuts LineA and leaves LineB outside, and the frame
DocWindows == {None, <<1, 1, 4, 3>>, <<0, 0, Width - 1, Height - 1>>}

\* what the file dialog and the file can be
Files ==
    {[kind |-> "cancel"], [kind |-> "unreadable"], [kind |-> "malformed"]}
    \cup {[kind |-> "json", content |-> c] :
            c \in {<<>>, <<CircleA, LineNoPoints>>, <<LineA, LineBadPoint>>,
                   <<LineBadPoint>>, <<PolyShort, LineB>>}}

\* the answers of the entry dialogs: None when cancelled, else <<value>>
Offsets == {None, <<1>>, <<-2>>}

Angles == {None, <<0>>}

Factors == {None, <<2>>, <<0>>}

\* a document on screen: the surface shows the last redraw of the list, up
\* to the shape that stopped it
InitDoc ==
    /\ shapes \in DocLists
    /\ clip_window \in DocWindows
    /\ image = redraw(shapes, clip_window).image
    /\ current_mode = "line"
    /\ current_color = "#000000"
    /\ temp_points = <<>>
    /\ dragging = FALSE
    /\ drag_start = None
    /\ call = NoCall
    /\ ret = NoRet

\* one handler run on the document: call keeps its name, its inputs and the
\* state it started from, ret what it showed
Handled(fn, args, out, cw, tp) ==
    /\ ret = NoRet
    /\ call' = [fn |-> fn, args |-> args, shapes |-> shapes,
                clip_window |-> clip_window, image |-> image]
    /\ ret' = [tag |-> "done", shown |-> out.shown]
    /\ shapes' = out.shapes
    /\ image' = out.image
    /\ clip_window' = cw
    /\ temp_points' = tp
    /\ UNCHANGED <<current_mode, current_color, dragging, drag_start>>

Redraw ==
    Handled("redraw", <<>>, then_redraw(shapes, clip_window, "none"),
            clip_window, temp_points)

LoadProject ==
    \E file \in Files :
        Handled("load_project", <<file>>,
                load_project(shapes, clip_window, image, file),
                clip_window, temp_points)

ClearAll ==
    \E yes \in BOOLEAN :
        Handled("clear_all", <<yes>>, clear_all(shapes, image, yes),
                IF yes THEN None ELSE clip_window,
                IF yes THEN <<>> ELSE temp_points)

TransformTranslate ==
    \E dx \in Offsets, dy \in Offsets :
        Handled("transform_translate", <<dx, dy>>,
                transform_translate(shapes, clip_window, image, dx, dy),
                clip_window, temp_points)

TransformRotate ==
    \E angle \in Angles :
        Handled("transform_rotate", <<angle>>,
                transform_rotate(shapes, clip_window, image, angle),
                clip_window, temp_points)

TransformScale ==
    \E factor \in Factors :
        Handled("transform_scale", <<factor>>,
                transform_scale(shapes, clip_window, image, factor),
                clip_window, temp_points)

FillPolygon ==
    Handled("fill_polygon", <<>>, fill_polygon(shapes, clip_window, image),
            clip_window, temp_points)

ApplyClipping ==
    Handled("apply_clipping", <<>>, apply_clipping(shapes, clip_window, image),
            clip_window, temp_points)

NextDoc ==
    \/ Redraw
    \/ LoadProject
    \/ ClearAll
    \/ TransformTranslate
    \/ TransformRotate
    \/ TransformScale
    \/ FillPolygon
    \/ ApplyClipping

SpecDoc == InitDoc /\ [][NextDoc]_vars

\* ------------------------------------------------------------------------
\* The editor driven from the empty document: clicks, mode changes, polygon
\* completions, fill toggles, transforms, clip-window drags, clip
\* applications and clear-all, in any order (no file is loaded). A handler
\* is not run where it would leave more than MaxShapes shapes, more than
\* MaxTemp pending points or a point off the surface.
\* ------------------------------------------------------------------------
MaxShapes == 2      \* no shape is added to a list of this length
MaxTemp == 4        \* no click is taken with this many pending points

Modes == {"line", "circle", "bezier", "char", "polygon", "clip"}

\* where the mouse is pressed and released
Clicks == {<<Width - 2, Height - 2>>}

\* what askstring returns: None on cancel, else the text typed
CharAnswers == {None, <<"">>, <<"b">>}

UIOffsets == {None, <<1>>}

UIFactors == {None, <<2>>, <<0>>}

WithinUI(shs) ==
    /\ Len(shs) <= MaxShapes
    /\ \A i \in 1 .. Len(shs) : \A j \in 1 .. Len(shs[i].points) :
           /\ shs[i].points[j][1] \in 0 .. Width - 1
           /\ shs[i].points[j][2] \in 0 .. Height - 1

\* the state a handler leaves: the document, the pending points, the clip
\* window and the picture
Left(shs, tp, cw, img) ==
    [shapes |-> shs, temp_points |-> tp, clip_window |-> cw, image |-> img]

\* lines 560-566, 571-577, 582-588: the shape made of the pending points,
\* which are then dropped, and the redraw
click_shape(shs, cw, kind, tp, color) ==
    LET added == Append(shs, [type |-> kind, points |-> tp, color |-> color])
    IN  Left(added, <<>>, cw, redraw(added, cw).image)

\* on_mouse_down in the drawing modes (lines 557-603); char is the answer
\* of the dialog of the char mode
on_mouse_down(shs, cw, img, mode, tp, color, p, char) ==
    CASE mode \in {"line", "circle"} ->
           IF Len(tp) + 1 = 2 THEN click_shape(shs, cw, mode, Append(tp, p), color)
           ELSE Left(shs, Append(tp, p), cw, img)
      [] mode = "bezier" ->
           IF Len(tp) + 1 = 4 THEN click_shape(shs, cw, mode, Append(tp, p), color)
           ELSE Left(shs, Append(tp, p), cw, img)
      [] mode = "char" ->
           IF char # None /\ char[1] # ""
           THEN LET added == Append(shs, [type |-> "char", points |-> <<p>>,
                                          char |-> Upper(char[1]),
                                          scale |-> DefaultScale,
                                          color |-> color])
                IN  Left(added, tp, cw, redraw(added, cw).image)
           ELSE Left(shs, tp, cw, img)
      [] mode = "polygon" -> Left(shs, Append(tp, p), cw, img)
      [] OTHER -> Left(shs, tp, cw, img)

\* complete_polygon accepting two pending points
complete_polygon_two_points(shs, cw, img, mode, tp, color) ==
    IF mode = "polygon" /\ Len(tp) >= 2
    THEN LET added == Append(shs, [type |-> "polygon", points |-> tp,
                                   color |-> color, filled |-> FALSE])
         IN  Left(added, <<>>, cw, redraw(added, cw).image)
    ELSE Left(shs, tp, cw, img)

\* complete_polygon (lines 772-785)
complete_polygon(shs, cw, img, mode, tp, color) ==
    IF mode = "polygon" /\ Len(tp) >= 3
    THEN LET added == Append(shs, [type |-> "polygon", points |-> tp,
                                   color |-> color, filled |-> FALSE])
         IN  Left(added, <<>>, cw, redraw(added, cw).image)
    ELSE Left(shs, tp, cw, img)

\* a handler's effect on the document state, within the bounds
Leaves(left) ==
    /\ WithinUI(left.shapes)
    /\ Len(left.temp_points) <= MaxTemp
    /\ shapes' = left.shapes
    /\ temp_points' = left.temp_points
    /\ clip_window' = left.clip_window
    /\ image' = left.image

OfOutcome(out) == Left(out.shapes, temp_points, clip_window, out.image)

InitUI == InitApp /\ call = NoCall /\ ret = NoRet

SetMode ==
    \E mode \in Modes :
        /\ current_mode' = mode
        /\ temp_points' = <<>>
        /\ UNCHANGED <<shapes, current_color, clip_window, dragging,
                       drag_start, image, call, ret>>

OnMouseDown ==
    \E p \in Clicks, char \in CharAnswers :
        /\ Leaves(on_mouse_down(shapes, clip_window, image, current_mode,
                                temp_points, current_color, p, char))
        /\ drag_start' = IF current_mode = "clip" THEN p ELSE drag_start
        /\ dragging' = IF current_mode = "clip" THEN TRUE ELSE dragging
        /\ UNCHANGED <<current_mode, current_color, call, ret>>

OnMouseUp ==
    \E p \in Clicks :
        /\ current_mode = "clip" /\ dragging
        /\ clip_window' = <<Min2(drag_start[1], p[1]), Min2(drag_start[2], p[2]),
                            Max2(drag_start[1], p[1]), Max2(drag_start[2], p[2])>>
        /\ dragging' = FALSE
        /\ image' = redraw(shapes, clip_window').image
        /\ UNCHANGED <<shapes, current_mode, current_color, temp_points,
                       drag_start, call, ret>>

CompletePolygon ==
    /\ Leaves(complete_polygon(shapes, clip_window, image, current_mode,
                               temp_points, current_color))
    /\ UNCHANGED <<current_mode, current_color, dragging, drag_start, call, ret>>

UIFillPolygon ==
    /\ Leaves(OfOutcome(fill_polygon(shapes, clip_window, image)))
    /\ UNCHANGED <<current_mode, current_color, dragging, drag_start, call, ret>>

UITransform ==
    /\ \/ \E dx \in UIOffsets, dy \in UIOffsets :
            Leaves(OfOutcome(transform_translate(shapes, clip_window, image, dx, dy)))
       \/ \E angle \in Angles :
            Leaves(OfOutcome(transform_rotate(shapes, clip_window, image, angle)))
       \/ \E factor \in UIFactors :
            Leaves(OfOutcome(transform_scale(shapes, clip_window, image, factor)))
    /\ UNCHANGED <<current_mode, current_color, dragging, drag_start, call, ret>>

UIApplyClipping ==
    /\ Leaves(OfOutcome(apply_clipping(shapes, clip_window, image)))
    /\ UNCHANGED <<current_mode, current_color, dragging, drag_start, call, ret>>

UIClearAll ==
    \E yes \in BOOLEAN :
        /\ Leaves(Left(clear_all(shapes, image, yes).shapes,
                       IF yes THEN <<>> ELSE temp_points,
                       IF yes THEN None ELSE clip_window,
                       clear_all(shapes, image, yes).image))
        /\ UNCHANGED <<current_mode, current_color, dragging, drag_start, call, ret>>

NextUI ==
    \/ SetMode
    \/ OnMouseDown
    \/ OnMouseUp
    \/ CompletePolygon
    \/ UIFillPolygon
    \/ UITransform
    \/ UIApplyClipping
    \/ UIClearAll

SpecUI == InitUI /\ [][NextUI]_vars

\* ------------------------------------------------------------------------
\* Claims
\* ------------------------------------------------------------------------
EightConnected(pts) ==
    \A i \in 1 .. Len(pts) - 1 :
        /\ Abs(pts[i + 1][1] - pts[i][1]) <= 1
        /\ Abs(pts[i + 1][2] - pts[i][2]) <= 1

\* C1: for all integer endpoints bresenham_line terminates and returns a
\* sequence that starts at (x0,y0), ends at (x1,y1) and is 8-connected; for
\* equal endpoints it is the single pixel (x0,y0).
C1_BresenhamPath ==
    ret.tag = "line" =>
        /\ ret.halts
        /\ Len(ret.points) >= 1
        /\ ret.points[1] = <<call.x0, call.y0>>
        /\ ret.points[Len(ret.points)] = <<call.x1, call.y1>>
        /\ EightConnected(ret.points)
        /\ (call.x0 = call.x1 /\ call.y0 = call.y1
              => ret.points = <<<<call.x0, call.y0>>>>)

\* a returned line in a true octant-crossing direction (both axes move, by
\* different amounts, against the positive directions)
C1_Witness ==
    /\ ret.tag = "line"
    /\ call.x1 < call.x0 - 1
    /\ call.y1 > call.y0
    /\ call.y1 - call.y0 < call.x0 - call.x1
    /\ Len(ret.points) > 2

\* C2 as stated: the pixel set does not depend on the order of the endpoints.
C2_SameSetBothWays ==
    ret.tag = "line" =>
        SeqToSet(ret.points)
          = SeqToSet(bresenham_line(call.x1, call.y1, call.x0, call.y0))

Mirror(p) == <<call.x0 + call.x1 - p[1], call.y0 + call.y1 - p[2]>>

\* C2 amended: swapping the endpoints gives the same number of pixels, and
\* the pixel set of the swapped call is the mirror image of this call's set
\* through the midpoint of the segment; the two sets are equal when the
\* segment is horizontal, vertical or exactly diagonal.
C2_MirroredSet ==
    ret.tag = "line" =>
        LET back == bresenham_line(call.x1, call.y1, call.x0, call.y0)
            dx == Abs(call.x1 - call.x0)
            dy == Abs(call.y1 - call.y0)
        IN  /\ Len(back) = Len(ret.points)
            /\ SeqToSet(back) = {Mirror(p) : p \in SeqToSet(ret.points)}
            /\ (dx = 0 \/ dy = 0 \/ dx = dy
                  => SeqToSet(back) = SeqToSet(ret.points))

\* a returned line whose swapped call produces a different pixel set
C2_Witness ==
    /\ ret.tag = "line"
    /\ SeqToSet(ret.points)
         # SeqToSet(bresenham_line(call.x1, call.y1, call.x0, call.y0))

\* ---- the closed segment and the closed rectangle, in integer geometry ----
Orient(a, b, c) ==
    LET v == (b[1] - a[1]) * (c[2] - a[2]) - (b[2] - a[2]) * (c[1] - a[1])
    IN  IF v > 0 THEN 1 ELSE IF v < 0 THEN -1 ELSE 0

\* c lies in the bounding box of a and b
InBox(a, b, c) ==
    /\ Min2(a[1], b[1]) <= c[1] /\ c[1] <= Max2(a[1], b[1])
    /\ Min2(a[2], b[2]) <= c[2] /\ c[2] <= Max2(a[2], b[2])

\* the closed segments p1-q1 and p2-q2 have a point in common
SegmentsMeet(p1, q1, p2, q2) ==
    LET o1 == Orient(p1, q1, p2)
        o2 == Orient(p1, q1, q2)
        o3 == Orient(p2, q2, p1)
        o4 == Orient(p2, q2, q1)
    IN  \/ o1 # o2 /\ o3 # o4
        \/ o1 = 0 /\ InBox(p1, q1, p2)
        \/ o2 = 0 /\ InBox(p1, q1, q2)
        \/ o3 = 0 /\ InBox(p2, q2, p1)
        \/ o4 = 0 /\ InBox(p2, q2, q1)

PointInRect(p, r) == r[1] <= p[1] /\ p[1] <= r[3] /\ r[2] <= p[2] /\ p[2] <= r[4]

\* the closed segment p-q has a point in common with the closed rectangle r
SegmentMeetsRect(p, q, r) ==
    \/ PointInRect(p, r)
    \/ PointInRect(q, r)
    \/ SegmentsMeet(p, q, <<r[1], r[2]>>, <<r[3], r[2]>>)
    \/ SegmentsMeet(p, q, <<r[3], r[2]>>, <<r[3], r[4]>>)
    \/ SegmentsMeet(p, q, <<r[3], r[4]>>, <<r[1], r[4]>>)
    \/ SegmentsMeet(p, q, <<r[1], r[4]>>, <<r[1], r[2]>>)

CallP0 == <<call.x0, call.y0>>
CallP1 == <<call.x1, call.y1>>

\* the number of boundaries of r that p lies beyond
BoundariesBeyond(p, r) ==
    (IF p[1] < r[1] THEN 1 ELSE 0) + (IF p[1] > r[3] THEN 1 ELSE 0)
    + (IF p[2] < r[2] THEN 1 ELSE 0) + (IF p[2] > r[4] THEN 1 ELSE 0)

\* C4: cohen_sutherland_clip returns None whenever the segment has no point
\* in common with the closed clip rectangle.
C4_DisjointRejected ==
    (ret.tag = "clip" /\ ~SegmentMeetsRect(CallP0, CallP1, call.clip_rect))
        => (ret.status = "reject" /\ ret.result = None)

\* a rejected segment that misses the rectangle with its endpoints in
\* different outside regions sharing no boundary: the first test of the
\* loop does not fire and an endpoint is replaced before the rejection
C4_Witness ==
    /\ ret.tag = "clip"
    /\ ~SegmentMeetsRect(CallP0, CallP1, call.clip_rect)
    /\ ret.status = "reject"
    /\ ret.cuts >= 1
    /\ BoundariesBeyond(CallP0, call.clip_rect) = 1
    /\ BoundariesBeyond(CallP1, call.clip_rect) = 1

\* p lies on the one boundary line of r that q lies beyond
OnBoundaryBeyond(p, q, r) ==
    /\ q[1] < r[1] => p[1] = r[1]
    /\ q[1] > r[3] => p[1] = r[3]
    /\ q[2] < r[2] => p[2] = r[2]
    /\ q[2] > r[4] => p[2] = r[4]

\* C5: a segment with both endpoints inside the rectangle is returned
\* unchanged; with one endpoint inside and the other beyond exactly one
\* boundary, the inside endpoint is returned unchanged and the other is
\* replaced by a point on that boundary line and within the rectangle.
C5_InsideAndOneCrossing ==
    ret.tag = "clip" =>
        LET r == call.clip_rect
            b0 == BoundariesBeyond(CallP0, r)
            b1 == BoundariesBeyond(CallP1, r)
            res == ret.result
        IN  /\ (b0 = 0 /\ b1 = 0)
                 => (ret.status = "accept"
                     /\ res = <<call.x0, call.y0, call.x1, call.y1>>)
            /\ (b0 = 0 /\ b1 = 1)
                 => (ret.status = "accept"
                     /\ <<res[1], res[2]>> = CallP0
                     /\ PointInRect(<<res[3], res[4]>>, r)
                     /\ OnBoundaryBeyond(<<res[3], res[4]>>, CallP1, r))
            /\ (b0 = 1 /\ b1 = 0)
                 => (ret.status = "accept"
                     /\ <<res[3], res[4]>> = CallP1
                     /\ PointInRect(<<res[1], res[2]>>, r)
                     /\ OnBoundaryBeyond(<<res[1], res[2]>>, CallP0, r))

\* an accepted segment whose first endpoint was beyond one boundary and was
\* moved to a point with a truncated (non-integral) coordinate
C5_Witness ==
    /\ ret.tag = "clip"
    /\ BoundariesBeyond(CallP0, call.clip_rect) = 1
    /\ BoundariesBeyond(CallP1, call.clip_rect) = 0
    /\ ret.status = "accept"
    /\ ret.cuts = 1
    /\ call.x0 # call.x1 /\ call.y0 # call.y1
    /\ <<ret.result[1], ret.result[2]>> # CallP0

\* the integer nearest to the square root of n >= 0 (never a tie: a square
\* root of an integer is no odd multiple of 1/2)
RoundSqrt(n) ==
    CHOOSE k \in 0 .. n + 1 :
        /\ 4 * n < (2 * k + 1) * (2 * k + 1)
        /\ (k = 0 \/ (2 * k - 1) * (2 * k - 1) < 4 * n)

Dist2(p, cx, cy) == (p[1] - cx) * (p[1] - cx) + (p[2] - cy) * (p[2] - cy)

\* C7: every pixel of midpoint_circle(cx, cy, r), r >= 0, has a distance to
\* the center that rounds to r-1, r or r+1, and for r = 0 every returned
\* pixel is the center.
C7_CircleTolerance ==
    ret.tag = "circle" =>
        /\ \A i \in 1 .. Len(ret.points) :
              RoundSqrt(Dist2(ret.points[i], call.cx, call.cy))
                 \in {call.radius - 1, call.radius, call.radius + 1}
        /\ call.radius = 0
             => (Len(ret.points) > 0
                 /\ \A i \in 1 .. Len(ret.points) :
                       ret.points[i] = <<call.cx, call.cy>>)

\* a circle of radius > 2 whose pixels include one off the exact circle
C7_Witness ==
    /\ ret.tag = "circle"
    /\ call.radius > 2
    /\ \E i \in 1 .. Len(ret.points) :
          Dist2(ret.points[i], call.cx, call.cy) # call.radius * call.radius

\* C3: when load_project fails at any step (open, JSON parse, or rendering
\* of the loaded content) and reports the failure, the shape list afterwards
\* is the one from before the load.
C3_LoadFailureKeepsShapes ==
    (call.fn = "load_project" /\ ret.shown = "error") => shapes = call.shapes

\* the part of C3 about failures before the assignment of line 650: a file
\* that cannot be opened or parsed leaves the list and the surface alone
C3_OpenOrParseFailureKeepsShapes ==
    (call.fn = "load_project" /\ call.args[1].kind \in {"unreadable", "malformed"})
        => (ret.shown = "error" /\ shapes = call.shapes /\ image = call.image)

\* a load reported as failed after which the list is the file's content
C3_FailedLoadReplaced ==
    /\ call.fn = "load_project"
    /\ ret.shown = "error"
    /\ call.args[1].kind = "json"
    /\ call.shapes # <<>>
    /\ shapes = call.args[1].content
    /\ shapes # call.shapes

\* what the clip makes of one shape according to C6: a line of at least 2
\* points becomes its clipped line in the same color or nothing, any other
\* shape stays
ClipExpected(shape, cw) ==
    IF shape.type = "line" /\ Len(Get(shape, "points", <<>>)) >= 2
    THEN IF Unpacks(shape.points[1]) /\ Unpacks(shape.points[2])
         THEN LET r == cohen_sutherland_run(shape.points[1][1], shape.points[1][2],
                                            shape.points[2][1], shape.points[2][2], cw)
              IN  IF r.status = "accept"
                  THEN << [type |-> "line", color |-> shape.color,
                           points |-> << <<r.result[1], r.result[2]>>,
                                         <<r.result[3], r.result[4]>> >>] >>
                  ELSE <<>>
         ELSE <<>>
    ELSE <<shape>>

\* C6: apply_clipping with a clip window replaces every line of at least 2
\* points by its clipped line (same color, two integer endpoints) or removes
\* it when the clipper returns nothing, and keeps every other shape, in
\* order; without a clip window the list is unchanged.
C6_ClipReplacesLines ==
    call.fn = "apply_clipping" =>
        IF call.clip_window = None THEN shapes = call.shapes
        ELSE shapes = Flatten([i \in 1 .. Len(call.shapes) |->
                                  ClipExpected(call.shapes[i], call.clip_window)])

\* every shape of the list carries "points", each point a pair
WellFormed(shs) ==
    \A i \in 1 .. Len(shs) :
        "points" \in DOMAIN shs[i] /\ AllUnpack(shs[i].points)

\* C6 on lists in which every shape has its points: there the clip does
\* what the claim says and reports it
C6_ClipReplacesLinesWellFormed ==
    (call.fn = "apply_clipping" /\ WellFormed(call.shapes)) =>
        /\ C6_ClipReplacesLines
        /\ ret.shown = (IF call.clip_window = None THEN "warning" ELSE "info")

\* a clip that ended in an exception and left a line that crosses the
\* window as it was
C6_ClipAbandoned ==
    /\ call.fn = "apply_clipping"
    /\ call.clip_window # None
    /\ ret.shown = "exception"
    /\ shapes = call.shapes
    /\ \E i \in 1 .. Len(shapes) :
          /\ shapes[i].type = "line"
          /\ "points" \in DOMAIN shapes[i]
          /\ AllUnpack(shapes[i].points)
          /\ Len(shapes[i].points) >= 2
          /\ ClipExpected(shapes[i], call.clip_window) # <<shapes[i]>>

\* the number of points render_shape asks of a kind
Required(shape_type) ==
    CASE shape_type \in {"line", "circle"} -> 2
      [] shape_type = "bezier" -> 4
      [] shape_type = "char" -> 1
      [] shape_type = "polygon" -> 3
      [] OTHER -> 0

TooFewPoints(shape) ==
    Len(Get(shape, "points", <<>>)) < Required(shape.type)

NotTooFewPoints(shape) == ~TooFewPoints(shape)

\* C8: in a redraw a shape with fewer points than its kind requires writes
\* no pixel and raises no error, and the other shapes are still rendered:
\* the redraw ends as the redraw of the list without those shapes does, and
\* when every point of the list is a pair it ends without an exception with
\* every pixel of every other shape painted.
C8_ShortShapesSkipped ==
    call.fn = "redraw" =>
        LET rest == SelectSeq(call.shapes, NotTooFewPoints)
            r == redraw(rest, call.clip_window)
        IN  /\ image = r.image
            /\ (ret.shown = "exception") = r.raised
            /\ (\A i \in 1 .. Len(rest) : AllUnpack(Get(rest[i], "points", <<>>)))
                  => /\ ret.shown = "none"
                     /\ \A i \in 1 .. Len(rest) :
                           \A p \in SeqToSet(shape_pixels(rest[i]).pixels) \cap Pixels :
                               image[p] \in {Get(rest[j], "color", "#000000") :
                                               j \in i .. Len(rest)}

\* a redraw of a list with a short shape between two others, the last of
\* which shows on the surface
C8_Witness ==
    /\ call.fn = "redraw"
    /\ ret.shown = "none"
    /\ Len(call.shapes) = 3
    /\ ~TooFewPoints(call.shapes[1])
    /\ TooFewPoints(call.shapes[2])
    /\ "points" \in DOMAIN call.shapes[2]
    /\ Len(call.shapes[2].points) > 0
    /\ ~TooFewPoints(call.shapes[3])
    /\ \E p \in Pixels : image[p] = call.shapes[3].color
    /\ \E p \in Pixels : image[p] = call.shapes[1].color
    /\ call.shapes[1].color # call.shapes[3].color

\* the batch with every repeated coordinate listed once
RECURSIVE Dedup(_)
Dedup(s) ==
    IF s = <<>> THEN <<>>
    ELSE LET front == Dedup(SubSeq(s, 1, Len(s) - 1))
         IN  IF s[Len(s)] \in SeqToSet(front) THEN front
             ELSE Append(front, s[Len(s)])

\* C9: after put_pixels(batch, color) every coordinate of the batch inside
\* the surface has the color, every other surface pixel keeps its color,
\* coordinates outside the bounds are not written (the surface has no new
\* position), and a repeated coordinate gives the same surface as listing
\* it once.
C9_PutPixelsInBounds ==
    call.fn = "put_pixels" =>
        /\ DOMAIN image = Pixels
        /\ \A p \in Pixels :
              image[p] = IF p \in SeqToSet(call.pixels) THEN call.color
                         ELSE call.image[p]
        /\ image = put_pixels(call.image, Dedup(call.pixels), call.color)

\* a batch with a coordinate inside the surface listed twice, around one
\* outside it, that changed the color of a pixel
C9_Witness ==
    /\ call.fn = "put_pixels"
    /\ Len(call.pixels) = 3
    /\ call.pixels[1] = call.pixels[3]
    /\ call.pixels[1] \in Pixels
    /\ call.pixels[2] \notin Pixels
    /\ call.image[call.pixels[1]] \notin {call.color, "white"}
    /\ image[call.pixels[1]] = call.color

Transforms == {"transform_translate", "transform_rotate", "transform_scale"}

\* where the transform entered in the dialog takes a point (the rotation
\* entered is by 0 degrees)
PointImage(fn, args, p) ==
    CASE fn = "transform_translate" -> <<p[1] + args[1][1], p[2] + args[2][1]>>
      [] fn = "transform_rotate" -> p
      [] fn = "transform_scale" ->
           <<(p[1] - Width \div 2) * args[1][1] + Width \div 2,
             (p[2] - Height \div 2) * args[1][1] + Height \div 2>>

\* C10: a transform changes only the "points" entry of a shape: every other
\* field stays, the points keep their number and order (each is the old one
\* or its image, all of them alike), the list keeps the number and order of
\* its shapes, and a shape without "points" is unchanged.
C10_TransformsChangeOnlyPoints ==
    call.fn \in Transforms =>
        /\ Len(shapes) = Len(call.shapes)
        /\ \A i \in 1 .. Len(shapes) :
              LET before == call.shapes[i]
                  after == shapes[i]
              IN  /\ DOMAIN after = DOMAIN before
                  /\ \A k \in DOMAIN before \ {"points"} : after[k] = before[k]
                  /\ "points" \notin DOMAIN before => after = before
                  /\ "points" \in DOMAIN before =>
                        /\ Len(after.points) = Len(before.points)
                        /\ \/ after.points = before.points
                           \/ /\ \A a \in SeqToSet(call.args) : a # None
                              /\ AllUnpack(before.points)
                              /\ \A j \in 1 .. Len(before.points) :
                                    after.points[j] =
                                        PointImage(call.fn, call.args, before.points[j])

\* a translation of a list of three that moved a shape with several
\* points, next to a glyph with its own fields and a shape without "points"
C10_Witness ==
    /\ call.fn = "transform_translate"
    /\ ret.shown = "none"
    /\ Len(shapes) = 3
    /\ \E i, j, k \in 1 .. 3 :
          /\ "points" \notin DOMAIN shapes[i]
          /\ shapes[j].type = "char" /\ Len(shapes[j].points) = 1
          /\ shapes[j].points # call.shapes[j].points
          /\ "points" \in DOMAIN shapes[k]
          /\ Len(shapes[k].points) >= 3
          /\ shapes[k].points # call.shapes[k].points
          /\ shapes[k].points[1] # shapes[k].points[2]

\* the pixels of the sides of the clip window, corners included
OutlineOf(cw) ==
    IF cw = None THEN {}
    ELSE {p \in Pixels :
            \/ p[1] \in {cw[1], cw[3]} /\ cw[2] <= p[2] /\ p[2] <= cw[4]
            \/ p[2] \in {cw[2], cw[4]} /\ cw[1] <= p[1] /\ p[1] <= cw[3]}

\* C11: after a redraw (one that ran to its end) every surface pixel in the
\* pixel set of at least one shape has the color of the last shape of the
\* list whose pixel set holds it, every pixel in no pixel set and off the
\* clip-window outline has the background color, and the outline shows only
\* where no shape is: it is never drawn over a shape.
C11_PaintOrder ==
    (call.fn = "redraw" /\ ret.shown = "none") =>
        LET covered == [i \in 1 .. Len(shapes) |->
                           SeqToSet(shape_pixels(shapes[i]).pixels)]
            outline == OutlineOf(clip_window)
        IN  \A p \in Pixels :
               LET over == {i \in 1 .. Len(shapes) : p \in covered[i]}
               IN  IF over # {}
                   THEN LET last == CHOOSE i \in over : \A j \in over : j <= i
                        IN  image[p] = Get(shapes[last], "color", "#000000")
                   ELSE IF p \in outline THEN image[p] = "#FF0000"
                   ELSE image[p] = "white"

\* a redraw with a clip window in which one pixel lies in the pixel sets of
\* two shapes of different colors, one shape crosses the outline, and the
\* outline and the background show elsewhere
C11_Witness ==
    /\ call.fn = "redraw"
    /\ ret.shown = "none"
    /\ clip_window # None
    /\ Len(shapes) >= 2
    /\ LET first == SeqToSet(shape_pixels(shapes[1]).pixels)
           second == SeqToSet(shape_pixels(shapes[2]).pixels)
       IN  /\ shapes[1].color # shapes[2].color
           /\ \E p \in Pixels : p \in first /\ p \in second
           /\ \E p \in OutlineOf(clip_window) : p \in first \cup second
           /\ \E p \in Pixels : image[p] = "#FF0000"
           /\ \E p \in Pixels : image[p] = "white"

\* the x and the y coordinates of a ring
RingXs(vertices) == {vertices[i][1] : i \in 1 .. Len(vertices)}

RingYs(vertices) == {vertices[i][2] : i \in 1 .. Len(vertices)}

\* C12: for a ring of at least 3 integer vertices and any bounds rectangle,
\* every pixel scanline_fill returns lies within the bounding box of the
\* vertices and within the bounds rectangle; a ring of fewer than 3
\* vertices gives no pixel.
C12_FillWithinBoxes ==
    ret.tag = "fill" =>
        IF Len(call.vertices) < 3 THEN ret.points = <<>>
        ELSE \A k \in 1 .. Len(ret.points) :
                LET p == ret.points[k]
                IN  /\ \E x \in RingXs(call.vertices) : x <= p[1]
                    /\ \E x \in RingXs(call.vertices) : p[1] <= x
                    /\ \E y \in RingYs(call.vertices) : y <= p[2]
                    /\ \E y \in RingYs(call.vertices) : p[2] <= y
                    /\ call.bbox[1] <= p[1] /\ p[1] <= call.bbox[3]
                    /\ call.bbox[2] <= p[2] /\ p[2] <= call.bbox[4]

\* a fill of a ring with a vertex left of and below the bounds, of which
\* the bounds keep some pixels on their own left and lower edges
C12_Witness ==
    /\ ret.tag = "fill"
    /\ Len(call.vertices) >= 3
    /\ \E x \in RingXs(call.vertices) : x < call.bbox[1]
    /\ \E y \in RingYs(call.vertices) : y < call.bbox[2]
    /\ \E x \in RingXs(call.vertices) : x > call.bbox[3]
    /\ \E k \in 1 .. Len(ret.points) : ret.points[k][1] = call.bbox[1]
    /\ \E k \in 1 .. Len(ret.points) : ret.points[k][2] = call.bbox[2]
    /\ \E k \in 1 .. Len(ret.points) : ret.points[k][1] = call.bbox[3]

\* C13: in every state reached from the empty document by clicks, mode
\* changes, polygon completions, fill toggles, transforms, clip-window
\* drags, clip applications and clear-all, every shape of the list has the
\* number of points of its kind: line 2, circle 2, bezier 4, char 1,
\* polygon at least 3.
C13_PointCounts ==
    \A i \in 1 .. Len(shapes) :
        /\ "points" \in DOMAIN shapes[i]
        /\ CASE shapes[i].type \in {"line", "circle"} -> Len(shapes[i].points) = 2
             [] shapes[i].type = "bezier" -> Len(shapes[i].points) = 4
             [] shapes[i].type = "char" -> Len(shapes[i].points) = 1
             [] shapes[i].type = "polygon" -> Len(shapes[i].points) >= 3
             [] OTHER -> FALSE

\* a completed polygon of four clicks, filled and moved since, beside a
\* line drawn after the move, with a clip window dragged and three clicks
\* pending in the bezier mode
C13_Witness ==
    /\ call = NoCall
    /\ Len(shapes) = 2
    /\ \E i \in 1 .. 2 :
           /\ shapes[i].type = "polygon"
           /\ Len(shapes[i].points) = 4
           /\ shapes[i].points \notin [1 .. 4 -> Clicks]
           /\ shapes[i].filled
    /\ \E i \in 1 .. 2 :
           /\ shapes[i].type = "line"
           /\ shapes[i].points \in [1 .. 2 -> Clicks]
    /\ clip_window # None
    /\ current_mode = "bezier"
    /\ Len(temp_points) = 3

\* C14: for every integer segment and every normalized clip rectangle,
\* no intersection computed by the loop of cohen_sutherland_clip divides by
\* zero, and the loop ends in accept or reject after at most four endpoint
\* replacements.
C14_ClipLoopEnds ==
    (/\ ret.tag = "clip"
     /\ call.clip_rect[1] <= call.clip_rect[3]
     /\ call.clip_rect[2] <= call.clip_rect[4])
        => /\ ret.status # "zerodiv"
           /\ ret.status \in {"accept", "reject"}
           /\ ret.cuts <= 4

\* a segment outside a proper rectangle at both ends, cut four times
\* before it is accepted
C14_Witness ==
    /\ ret.tag = "clip"
    /\ call.clip_rect[1] < call.clip_rect[3]
    /\ call.clip_rect[2] < call.clip_rect[4]
    /\ ret.status = "accept"
    /\ ret.cuts = 4

\* twice the signed area of the triangle a, b, c
Cross(a, b, c) ==
    (b[1] - a[1]) * (c[2] - a[2]) - (b[2] - a[2]) * (c[1] - a[1])

\* the vertex after the i-th around the ring
NextVertex(vertices, i) == vertices[(i % Len(vertices)) + 1]

\* a strictly convex ring: every other vertex lies strictly on one and the
\* same side of every edge
Convex(vertices) ==
    /\ Len(vertices) >= 3
    /\ \E s \in {-1, 1} :
          \A i \in 1 .. Len(vertices) : \A k \in 1 .. Len(vertices) :
              (vertices[k] # vertices[i] /\ vertices[k] # NextVertex(vertices, i))
                 => s * Cross(vertices[i], NextVertex(vertices, i), vertices[k]) > 0
    /\ \A i \in 1 .. Len(vertices) : \A k \in 1 .. Len(vertices) :
          i # k => vertices[i] # vertices[k]

\* p is strictly on the inner side of every edge of a convex ring
StrictlyInside(p, vertices) ==
    \E s \in {-1, 1} :
        \A i \in 1 .. Len(vertices) :
            s * Cross(vertices[i], NextVertex(vertices, i), p) > 0

RingWithin(vertices, bbox) ==
    \A i \in 1 .. Len(vertices) :
        /\ bbox[1] <= vertices[i][1] /\ vertices[i][1] <= bbox[3]
        /\ bbox[2] <= vertices[i][2] /\ vertices[i][2] <= bbox[4]

C15_InteriorFilledOffVertexRows ==
    (/\ ret.tag = "fill"
     /\ Convex(call.vertices)
     /\ RingWithin(call.vertices, call.bbox))
        => \A p \in FillCoord \X FillCoord :
              (StrictlyInside(p, call.vertices) /\ p[2] \notin RingYs(call.vertices))
                 => p \in SeqToSet(ret.points)

====
